---- MODULE Spec2Model ----
(***************************************************************************)
(* A model of simbad_batch.py: the throttle decorator, query_reference,    *)
(* get_object_types, get_output_filename, query_coordinates,               *)
(* generate_report and the batch loop of __main__.                         *)
(*                                                                         *)
(* Text is a sequence of one-character strings.  A few long literals that  *)
(* the program only ever copies or splits on as a whole ("?bibcode=", the  *)
(* URL prefix, ".txt", the labels of the report) are one element each.     *)
(* Time is in milliseconds.                                                *)
(***************************************************************************)
EXTENDS Integers, Sequences, FiniteSets, TLC

VARIABLES
    \* ---- the batch process (simbad_batch.py, __main__) ----
    coordinates_file,   \* the lines of the input file
    lineno,             \* how many lines the for loop has consumed
    index,              \* the counter printed in front of each object
    pc,                 \* where the flow of control is
    fields,             \* the dictionary returned by query_coordinates
    references,         \* generate_report: list(fields['all_types'])
    cursor,             \* generate_report: entry / match being resolved
    replaced,           \* generate_report: citations of the current entry
    unique_references,  \* generate_report: the set of rendered lines
    files,              \* the file system: the reports written so far
    exception,          \* the exception that ended the process, if any
    \* ---- the clock and the two throttle objects ----
    now,                \* datetime.datetime.now()
    time_of_last_call,  \* one timestamp per throttle instance
    wrapper_now,        \* the local `now` of the wrapper call in progress
    \* ---- history (not program state) ----
    starts,             \* per throttle: start of the last two wrapped calls
    requests,           \* the last two requests sent to the remote service
    events,             \* what happened for the object being processed
    queried,            \* the lines a region query was sent for
    ncalls,             \* calls made by the throttle harness
    \* ---- the harness of the pure functions ----
    fin,                \* the argument
    fout,               \* the result
    fpc                 \* "ready" | "done"

batchVars == <<coordinates_file, lineno, index, pc, fields, references, cursor,
               replaced, unique_references, files, exception, events, queried>>
clockVars == <<now, time_of_last_call, wrapper_now, starts, requests, ncalls>>
funVars   == <<fin, fout, fpc>>
vars      == <<batchVars, clockVars, funVars>>

None == "None"

-----------------------------------------------------------------------------
(* Text helpers: the Python string and re operations the program uses.      *)

Digits == <<"0", "1", "2", "3", "4", "5", "6", "7", "8", "9">>
Upper  == <<"A", "B", "C", "D", "E", "F", "G", "H", "I", "J", "K", "L", "M",
            "N", "O", "P", "Q", "R", "S", "T", "U", "V", "W", "X", "Y", "Z">>
Lower  == <<"a", "b", "c", "d", "e", "f", "g", "h", "i", "j", "k", "l", "m",
            "n", "o", "p", "q", "r", "s", "t", "u", "v", "w", "x", "y", "z">>

Range(s) == {s[i] : i \in DOMAIN s}
IndexOf(s, c) == CHOOSE i \in DOMAIN s : s[i] = c

IsDigit(c) == c \in Range(Digits)
IsUpper(c) == c \in Range(Upper)
IsLower(c) == c \in Range(Lower)

\* str.upper() / str.lower() of one character
ToUpper(c) == IF IsLower(c) THEN Upper[IndexOf(Lower, c)] ELSE c
ToLower(c) == IF IsUpper(c) THEN Lower[IndexOf(Upper, c)] ELSE c

\* The URL prefix of line 206, one element.
UrlPrefix == "http://simbad.u-strasbg.fr/simbad/sim-ref?bibcode="

\* The characters of the model in code point order (sorted() compares
\* unicode strings by code point).  UrlPrefix starts with "h".
CodePoints == <<"\n", " ", "%", "&", "(", ")", "*", ",", "-", ".">> \o Digits
              \o <<":", "?">> \o Upper \o <<"[", "]", "_">> \o Lower
              \o <<"{", "}">>
Ord(c) == IF c = UrlPrefix THEN IndexOf(CodePoints, "h") ELSE IndexOf(CodePoints, c)

\* ''.join(parts)
RECURSIVE Concat(_)
Concat(parts) == IF parts = <<>> THEN <<>> ELSE Head(parts) \o Concat(Tail(parts))

\* s.split(sep), sep one element
RECURSIVE SplitFrom(_, _, _)
SplitFrom(s, sep, cur) ==
    IF s = <<>> THEN <<cur>>
    ELSE IF Head(s) = sep THEN <<cur>> \o SplitFrom(Tail(s), sep, <<>>)
    ELSE SplitFrom(Tail(s), sep, Append(cur, Head(s)))
Split(s, sep) == SplitFrom(s, sep, <<>>)

\* s.split(): on runs of whitespace, no empty token
SplitWhitespace(s) == SelectSeq(Split(s, " "), LAMBDA t : t # <<>>)

\* sep.join(parts)
RECURSIVE Join(_, _)
Join(parts, sep) ==
    IF parts = <<>> THEN <<>>
    ELSE IF Len(parts) = 1 THEN parts[1]
    ELSE parts[1] \o sep \o Join(Tail(parts), sep)

\* s.strip()
RECURSIVE LStrip(_)
LStrip(s) == IF s # <<>> /\ Head(s) = " " THEN LStrip(Tail(s)) ELSE s
RECURSIVE RStrip(_)
RStrip(s) == IF s # <<>> /\ s[Len(s)] = " " THEN RStrip(SubSeq(s, 1, Len(s) - 1)) ELSE s
Strip(s) == RStrip(LStrip(s))

\* s.capitalize()
Capitalize(s) ==
    IF s = <<>> THEN <<>>
    ELSE <<ToUpper(s[1])>> \o [i \in 1..(Len(s) - 1) |-> ToLower(s[i + 1])]

\* sub in s
Contains(s, sub) ==
    \E i \in 1..(Len(s) - Len(sub) + 1) : SubSeq(s, i, i + Len(sub) - 1) = sub

\* s.replace(old, new): every non-overlapping occurrence, left to right
RECURSIVE Replace(_, _, _)
Replace(s, old, new) ==
    IF Len(s) < Len(old) THEN s
    ELSE IF SubSeq(s, 1, Len(old)) = old
         THEN new \o Replace(SubSeq(s, Len(old) + 1, Len(s)), old, new)
         ELSE <<Head(s)>> \o Replace(Tail(s), old, new)

\* What a call gives back: a value, or the exception it raised.
Ok(v)      == [ok |-> TRUE, value |-> v]
Raised(e)  == [ok |-> FALSE, value |-> e]

-----------------------------------------------------------------------------
(* query_reference: the parsing of the response (lines 78-100).             *)

\* re: '\((\d{4})\)' matches at position i of s
YearMatchAt(s, i) ==
    /\ i + 5 <= Len(s)
    /\ s[i] = "("
    /\ \A k \in 1..4 : IsDigit(s[i + k])
    /\ s[i + 5] = ")"

\* re.findall('\((\d{4})\)', s): the groups of the non-overlapping matches
RECURSIVE FindYearsFrom(_, _)
FindYearsFrom(s, i) ==
    IF i > Len(s) THEN <<>>
    ELSE IF YearMatchAt(s, i)
         THEN <<SubSeq(s, i + 1, i + 4)>> \o FindYearsFrom(s, i + 6)
         ELSE FindYearsFrom(s, i + 1)
FindYears(s) == FindYearsFrom(s, 1)

\* x.capitalize() for x in name.split('-'), joined with '-' (line 96)
CapitalizeSegmentsUpperOnly(name) ==
    Join([i \in 1..Len(Split(name, "-")) |->
            IF Split(name, "-")[i] = <<>> THEN <<>>
            ELSE <<ToUpper(Split(name, "-")[i][1])>> \o Tail(Split(name, "-")[i])],
         <<"-">>)
CapitalizeSegments(name) ==
    Join([i \in 1..Len(Split(name, "-")) |-> Capitalize(Split(name, "-")[i])],
         <<"-">>)

\* year[-2:] (line 99)
LastTwo(year) == SubSeq(year, Len(year) - 1, Len(year))

\* data: the lines of str(result_table[0]).strip().splitlines(); data[4] of
\* the program is data[5] here, data[3] is data[4].
ParseReference(data) ==
    IF Len(data) < 5 THEN Raised("IndexError")
    ELSE LET authors_line == data[5]
             tokens == SplitWhitespace(authors_line)
         IN  IF tokens = <<>> THEN Raised("IndexError")
             ELSE LET name == tokens[1]
                      first_author == CapitalizeSegments(name)
                      year_line == data[4]
                      years == FindYears(year_line)
                  IN  IF years = <<>> THEN Raised("IndexError")
                      ELSE Ok(first_author \o LastTwo(years[1]))

-----------------------------------------------------------------------------
(* get_object_types: the body of the generator (lines 126-140).             *)

Ref == <<"R", "e", "f">>
BibcodeParam == "?bibcode="

\* ", ".join(r.get('title').split(",")) (line 133)
TitleUnchanged(title) == title
TitleOf(title) == Join(Split(title, ","), <<",", " ">>)

\* href.split('?bibcode=')[-1] (line 137)
BibcodeOfHref(href) == Split(href, BibcodeParam)[Len(Split(href, BibcodeParam))]

\* One iteration of the for loop: the pair yielded for marker r, a record
\* [tag, title, anchors] (anchors: the hrefs of the <a> inside the marker).
MarkerEntry(r) ==
    LET type_ == Strip(r.tag)
        title == TitleOf(r.title)
    IN  IF Contains(title, Ref)
        THEN IF r.anchors = <<>> THEN Raised("IndexError")
             ELSE LET bibcode == BibcodeOfHref(r.anchors[1])
                  IN  Ok(<<type_, Replace(title, Ref, <<"{">> \o bibcode \o <<"}">>)>>)
        ELSE Ok(<<type_, title>>)

\* The generator run to its end (list(...) or dict(...) of it): every pair in
\* document order, or the exception of the first marker that raises.
\* doc: [ntables, markers], markers those of the table of index 3.
RECURSIVE EntriesOf(_)
EntriesOf(markers) ==
    IF markers = <<>> THEN Ok(<<>>)
    ELSE LET first == MarkerEntry(Head(markers))
         IN  IF ~first.ok THEN first
             ELSE LET rest == EntriesOf(Tail(markers))
                  IN  IF ~rest.ok THEN rest ELSE Ok(<<first.value>> \o rest.value)

ExhaustObjectTypes(doc) ==
    IF doc.ntables < 4 THEN Raised("IndexError") ELSE EntriesOf(doc.markers)

-----------------------------------------------------------------------------
(* get_output_filename (lines 57-67).                                       *)
(* A coordinate is [ra, dec]: ra in units of 0.00025 s of time, dec in      *)
(* units of 0.00025 arcsec (signed).                                        *)

UnitsPerMilli  == 4
UnitsPerSecond == 1000 * UnitsPerMilli
UnitsPerMinute == 60 * UnitsPerSecond
UnitsPerHour   == 60 * UnitsPerMinute

Abs(x) == IF x < 0 THEN -x ELSE x
Sign(x) == IF x < 0 THEN -1 ELSE 1

\* Angle.hms / Angle.dms: the components all carry the sign of the angle
\* (run_tests.py lines 30-33).  The seconds stay in units.
Sexagesimal(a) ==
    <<Sign(a) * (Abs(a) \div UnitsPerHour),
      Sign(a) * ((Abs(a) \div UnitsPerMinute) % 60),
      Sign(a) * (Abs(a) % UnitsPerMinute)>>

DigitChar(n) == Digits[n + 1]

\* str(n) for n >= 0
RECURSIVE Decimal(_)
Decimal(n) == IF n < 10 THEN <<DigitChar(n)>> ELSE Decimal(n \div 10) \o <<DigitChar(n % 10)>>

\* zero padding to a width
RECURSIVE ZeroPad(_, _)
ZeroPad(s, width) == IF Len(s) >= width THEN s ELSE ZeroPad(<<"0">> \o s, width)

\* '{:02}'.format(n), n >= 0
Format02(n) == ZeroPad(Decimal(n), 2)

\* '{:06.3f}'.format(s), s >= 0 in units.  A value that is a decimal tie
\* (x.xxx5) is no tie as a binary float: it rounds either way, `up` says
\* which.
Thousandths(s, up) ==
    IF 2 * (s % UnitsPerMilli) = UnitsPerMilli
    THEN (s \div UnitsPerMilli) + (IF up THEN 1 ELSE 0)
    ELSE (2 * s + UnitsPerMilli) \div (2 * UnitsPerMilli)
Format063f(s, up) ==
    ZeroPad(Decimal(Thousandths(s, up) \div 1000) \o <<".">>
            \o ZeroPad(Decimal(Thousandths(s, up) % 1000), 3), 6)

\* line 63
SeparatorByDegrees(dec) == IF Sexagesimal(dec)[1] >= 0 THEN "+" ELSE "-"
Separator(dec) == IF dec >= 0 THEN "+" ELSE "-"

Extension == ".txt"

\* c: [ra, dec, upra, updec]
get_output_filename(c) ==
    LET hms == Sexagesimal(c.ra)
        ra  == Format02(hms[1]) \o Format02(hms[2]) \o Format063f(hms[3], c.upra)
        dms == [i \in 1..3 |-> Abs(Sexagesimal(c.dec)[i])]
        dec == Format02(dms[1]) \o Format02(dms[2]) \o Format063f(dms[3], c.updec)
    IN  <<"J">> \o ra \o <<Separator(c.dec)>> \o dec \o <<Extension>>

-----------------------------------------------------------------------------
(* generate_report: the regular expression and the sort (lines 188-218).    *)

\* [\w.]
IsWordOrDot(c) == IsDigit(c) \/ IsUpper(c) \/ IsLower(c) \/ c = "_" \/ c = "."

\* the length of the run of [\w.] characters of s that starts at i
RECURSIVE RunLength(_, _)
RunLength(s, i) ==
    IF i <= Len(s) /\ IsWordOrDot(s[i]) THEN 1 + RunLength(s, i + 1) ELSE 0

\* regexp = '{[\w.]+}': the end of the match that starts at i, 0 if none
MatchEnd(s, i) ==
    IF s[i] # "{" THEN 0
    ELSE LET n == RunLength(s, i + 1)
         IN  IF n >= 1 /\ i + n + 1 <= Len(s) /\ s[i + n + 1] = "}"
             THEN i + n + 1 ELSE 0

\* the non-overlapping matches of regexp in s, left to right, as <<start, end>>
RECURSIVE MatchesFrom(_, _)
MatchesFrom(s, i) ==
    IF i > Len(s) THEN <<>>
    ELSE IF MatchEnd(s, i) > 0
         THEN << <<i, MatchEnd(s, i)>> >> \o MatchesFrom(s, MatchEnd(s, i) + 1)
         ELSE MatchesFrom(s, i + 1)
Matches(s) == MatchesFrom(s, 1)

\* re.findall(regexp, s), each match with .strip("{}") applied (lines 191, 215)
Bibcodes(s) == [k \in 1..Len(Matches(s)) |->
                   SubSeq(s, Matches(s)[k][1] + 1, Matches(s)[k][2] - 1)]

\* re.sub(regexp, f, s), repls the values f returned, in order (line 196)
RECURSIVE SubstituteFrom(_, _, _, _)
SubstituteFrom(s, pos, ms, repls) ==
    IF ms = <<>> THEN SubSeq(s, pos, Len(s))
    ELSE SubSeq(s, pos, Head(ms)[1] - 1) \o Head(repls)
         \o SubstituteFrom(s, Head(ms)[2] + 1, Tail(ms), Tail(repls))
Substitute(s, repls) == SubstituteFrom(s, 1, Matches(s), repls)

\* the bibcodes of every annotation, in the order of lines 213-215
RECURSIVE AllBibcodes(_)
AllBibcodes(refs) ==
    IF refs = <<>> THEN <<>> ELSE Bibcodes(Head(refs)[2]) \o AllBibcodes(Tail(refs))

\* a < b for unicode strings
LexLess(a, b) ==
    LET diff == {i \in 1..Len(a) : i <= Len(b) /\ a[i] # b[i]}
    IN  IF diff = {} THEN Len(a) < Len(b)
        ELSE LET i == CHOOSE j \in diff : \A k \in diff : j <= k
             IN  Ord(a[i]) < Ord(b[i])

\* sorted(S)
RECURSIVE Sorted(_)
Sorted(S) ==
    IF S = {} THEN <<>>
    ELSE LET m == CHOOSE x \in S : \A y \in S \ {x} : LexLess(x, y)
         IN  <<m>> \o Sorted(S \ {m})

\* url(bibcode) (line 206)
Url(bibcode) == <<UrlPrefix>> \o bibcode

\* '{} {}'.format(citation, url(bibcode)) (line 216)
ReferenceLine(citation, bibcode) == citation \o <<" ">> \o Url(bibcode)

-----------------------------------------------------------------------------
(* The remote service: what SIMBAD answers.                                 *)

B99R == <<"9", "9", "R">>
B12B == <<"1", "2", ".", "B">>
B11M == <<"1", "1", "M">>
B05G == <<"0", "5", "A", "&", "A", "G">>     \* as in 2005A&A...432..161G
B00X == <<"0", "0", "X">>

KnownBibcodes == {B99R, B12B, B11M, B05G, B00X}

\* str(Simbad.query_bibcode(b)[0]).strip().splitlines()
Response(b) ==
    LET head == << <<"R", "e", "f", "s">>, <<"-", "-">>, b \o <<" ", "=">> >>
    IN  CASE b = B99R -> head \o << <<"A", "J", " ", "(", "1", "9", "9", "9", ")">>,
                                    <<"R", "E", "I", " ", "B", ".">> >>
          [] b = B12B -> head \o << <<"(", "2", "0", "1", "2", ")">>,
                                    <<"B", "I", " ", "N", ".", ",", " ", "M", "O">> >>
          [] b = B11M -> head \o << <<"7", "3", "3", " ", "(", "2", "0", "1", "1", ")">>,
                                    <<"M", "O", "-", "C", "A", " ", "M", ".">> >>
          [] b = B05G -> head \o << <<"(", "2", "0", "0", "5", ")">>,
                                    <<"G", "O", " ", "C", ".">> >>
          [] OTHER    -> head \o << <<"i", "n", " ", "p", "r", "e", "s", "s">>,
                                    <<"X", "U", " ", "Y", ".">> >>

Href(b) == <<"s", "i", "m", "-", "r", "e", "f", BibcodeParam>> \o b

Marker(tag, title, anchors) == [tag |-> tag, title |-> title, anchors |-> anchors]

\* The objects of the sky: what the region query and the identifier page
\* give for each.
Sky ==
    [V7 |-> [identifiers |-> <<"V", "7">>,
             reference |-> B99R,
             coords |-> [ra |-> 5 * UnitsPerHour + 35 * UnitsPerMinute + 24550 * UnitsPerMilli,
                         dec |-> -(5 * UnitsPerHour + 6 * UnitsPerMinute + 59 * UnitsPerSecond),
                         upra |-> FALSE, updec |-> FALSE],
             doc |-> [ntables |-> 4,
                      markers |-> << Marker(<<"R", "a", "d">>, <<"[", "A", "]">>, <<>>) >>]],
     M2 |-> [identifiers |-> <<"M", "2">>,
             reference |-> B99R,
             coords |-> [ra |-> 5 * UnitsPerHour + 35 * UnitsPerMinute + 27633 * UnitsPerMilli + 3,
                         dec |-> -(5 * UnitsPerHour + 9 * UnitsPerMinute + 34373 * UnitsPerMilli + 3),
                         upra |-> FALSE, updec |-> FALSE],
             doc |-> [ntables |-> 5,
                      markers |-> << Marker(<<" ", "Y", "*", "O">>,
                                            <<"R", "e", "f", ",", "H", ",", "[", "M", "]">>,
                                            <<Href(B12B)>>),
                                     Marker(<<"I", "R">>, <<"2", "M", ",", "[", "G", "]">>, <<>>),
                                     Marker(<<"F", "I", "R">>, <<"R", "e", "f">>, <<Href(B12B)>>) >>]],
     T3 |-> [identifiers |-> <<"T", "3">>,
             reference |-> B11M,
             coords |-> [ra |-> 21 * UnitsPerHour + 39 * UnitsPerMinute,
                         dec |-> 57 * UnitsPerHour + 29 * UnitsPerMinute + 24 * UnitsPerSecond,
                         upra |-> FALSE, updec |-> FALSE],
             doc |-> [ntables |-> 4,
                      markers |-> << Marker(<<"X">>, <<"R", "e", "f">>, <<Href(B99R)>>),
                                     Marker(<<"Y">>, <<"R", "e", "f", ",", "[", "G", "]">>,
                                            <<Href(B05G)>>),
                                     Marker(<<"X">>, <<"R", "e", "f">>, <<Href(B12B)>>) >>]],
     N4 |-> [identifiers |-> <<"N", "4">>,
             reference |-> B99R,
             coords |-> [ra |-> 0, dec |-> -30 * UnitsPerSecond, upra |-> FALSE, updec |-> FALSE],
             doc |-> [ntables |-> 3, markers |-> <<>>]],
     P5 |-> [identifiers |-> <<"P", "5">>,
             reference |-> B12B,
             coords |-> [ra |-> UnitsPerHour, dec |-> 0, upra |-> FALSE, updec |-> FALSE],
             doc |-> [ntables |-> 4,
                      markers |-> << Marker(<<"s", "m", "m">>, <<"R", "e", "f">>,
                                            <<Href(B00X)>>) >>]]]

Objects == DOMAIN Sky
Comment == "#"

-----------------------------------------------------------------------------
(* The throttle decorator (lines 20-50).                                    *)

ThrottlePeriod == 250           \* @throttle(seconds=0.25), in ms
DatetimeMin    == -1000000      \* datetime.datetime.min: long before the run

MaxTime  == 250                 \* the clock runs freely up to here
MaxLines == 2                   \* lines of the coordinates file
MaxCalls == 3                   \* calls made by the caller of ThrottleSpec

\* One throttle instance per decorated function (lines 73 and 103).
Throttles == {"query_reference", "get_object_types"}

\* line 43, with now as read at line 41
GateOpenAtOnce(g) == now - time_of_last_call[g] >= 0
GateOpen(g) == now - time_of_last_call[g] >= ThrottlePeriod

\* line 48: the finally clause stores the wrapper's local `now`
AfterFinally(g, t) == [time_of_last_call EXCEPT ![g] = t]

\* keep the last two
Push2(seq, x) == IF Len(seq) < 2 THEN Append(seq, x) ELSE <<seq[2], x>>

WrapperOf(g) == IF g = "query_reference" THEN "query_reference_wrapper"
                ELSE "get_object_types_wrapper"

Spinning == \E g \in Throttles : pc = WrapperOf(g) /\ ~GateOpen(g)

Running == pc \notin {"done", "crashed", "idle"}

\* Time passes (the busy loop of lines 40-44 re-reads the clock; a remote
\* call takes time).  Half a period at a time.
Tick ==
    /\ Running
    /\ now < MaxTime \/ Spinning
    /\ now' = now + (ThrottlePeriod \div 2)
    /\ UNCHANGED <<batchVars, funVars, time_of_last_call, wrapper_now, starts,
                   requests, ncalls>>

-----------------------------------------------------------------------------
(* The batch: __main__, query_coordinates and generate_report.              *)

Lines == Objects \cup {Comment}
Files == UNION {[1..n -> Lines] : n \in 0..MaxLines}

\* No try/except anywhere (lines 221-246): an exception ends the process.
AfterExceptionSkipsObject == "main"
AfterException == "crashed"

\* The remote calls of generate_report in program order: line 175, line 183
\* (list() runs the generator, whose body sends the request of line 123),
\* lines 195-196, lines 213-216.
StepsOfReportEager == <<"materialize", "primary", "all_types", "references">>
StepsOfReport == <<"primary", "materialize", "all_types", "references">>

NextStep(step) == StepsOfReport[IndexOf(StepsOfReport, step) + 1]

NoCursor == [phase |-> None, i |-> 0, k |-> 0]
NoException == [kind |-> None, line |-> 0]
NoFields == [main_id |-> None]

\* What the next remote step of generate_report starts with.
Begin(step, ev) ==
    IF step = "primary"
    THEN /\ pc' = "query_reference_wrapper"
         /\ cursor' = [phase |-> "primary", i |-> 0, k |-> 0]
         /\ events' = ev
         /\ UNCHANGED requests
    ELSE IF step = "materialize"
    THEN /\ pc' = "requests_get"
         /\ requests' = Push2(requests, [kind |-> "sim-id", at |-> now])
         /\ events' = Append(ev, [what |-> "fetch", phase |-> None])
         /\ UNCHANGED cursor
    ELSE /\ pc' = step
         /\ cursor' = [phase |-> step, i |-> 1, k |-> 1]
         /\ events' = ev
         /\ UNCHANGED requests

\* open(output_filename, 'wt'): a new, empty file under that name
Open(fs, name, line) ==
    Append(SelectSeq(fs, LAMBDA f : f.name # name),
           [name |-> name, line |-> line, text |-> <<>>, complete |-> FALSE])
\* fd.write(chunk), on the file that is open
Write(fs, chunk) == [fs EXCEPT ![Len(fs)].text = Append(@, chunk)]
RECURSIVE WriteAll(_, _)
WriteAll(fs, chunks) ==
    IF chunks = <<>> THEN fs ELSE WriteAll(Write(fs, Head(chunks)), Tail(chunks))
\* the with block of line 171 is left normally: the report is complete
Close(fs) == [fs EXCEPT ![Len(fs)].complete = TRUE]

\* The bibcode query_reference is being called with.
Argument ==
    IF cursor.phase = "primary" THEN fields.reference
    ELSE IF cursor.phase = "all_types" THEN Bibcodes(references[cursor.i][2])[cursor.k]
    ELSE AllBibcodes(references)[cursor.k]

Raise(e) ==
    /\ pc' = AfterException
    /\ exception' = [kind |-> e, line |-> lineno]

\* line 236: empty lines and comments are ignored
SkipLine ==
    /\ pc = "main" /\ lineno < Len(coordinates_file)
    /\ coordinates_file[lineno + 1] = Comment
    /\ lineno' = lineno + 1
    /\ UNCHANGED <<coordinates_file, index, pc, fields, references, cursor, replaced,
                   unique_references, files, exception, events, queried,
                   clockVars, funVars>>

\* lines 239-240, 145-147: the region query is sent
ReadLine ==
    /\ pc = "main" /\ lineno < Len(coordinates_file)
    /\ coordinates_file[lineno + 1] \in Objects
    /\ lineno' = lineno + 1
    /\ pc' = "query_region"
    /\ requests' = Push2(requests, [kind |-> "query_region", at |-> now])
    /\ queried' = queried \cup {lineno + 1}
    /\ events' = <<>>
    /\ UNCHANGED <<coordinates_file, index, fields, references, cursor, replaced,
                   unique_references, files, exception,
                   now, time_of_last_call, wrapper_now, starts, ncalls, funVars>>

\* the for loop of line 233 ends
EndOfFile ==
    /\ pc = "main" /\ lineno = Len(coordinates_file)
    /\ pc' = "done"
    /\ UNCHANGED <<coordinates_file, lineno, index, fields, references, cursor, replaced,
                   unique_references, files, exception, events, queried,
                   clockVars, funVars>>

\* lines 147-164: the region query answers; get_object_types is called
RegionReturns ==
    /\ pc = "query_region"
    /\ LET o == coordinates_file[lineno]
       IN  fields' = [main_id |-> o,
                      identifiers |-> Sky[o].identifiers,
                      reference |-> Sky[o].reference,
                      coords |-> Sky[o].coords,
                      ra |-> <<"RA">>, dec |-> <<"DEC">>,
                      distance |-> <<"0", ".", "0">>,
                      type |-> <<"OTYPE_V">>,
                      spectral_type |-> <<"SP_TYPE">>]
    /\ pc' = "get_object_types_wrapper"
    /\ UNCHANGED <<coordinates_file, lineno, index, references, cursor, replaced,
                   unique_references, files, exception, events, queried,
                   clockVars, funVars>>

RegionFails ==
    /\ pc = "query_region"
    /\ Raise("RemoteQueryError")
    /\ UNCHANGED <<coordinates_file, lineno, index, fields, references, cursor, replaced,
                   unique_references, files, events, queried, clockVars, funVars>>

\* lines 40-48 around get_object_types: the gate opens, fn() only creates the
\* generator (nothing of lines 115-140 runs) and the finally clause stores the
\* time.  Then lines 165, 241-244, 171-173, and the first remote step.
TypesWrapperPasses ==
    /\ pc = "get_object_types_wrapper"
    /\ GateOpen("get_object_types")
    /\ wrapper_now' = now
    /\ starts' = [starts EXCEPT !["get_object_types"] = Push2(@, now)]
    /\ time_of_last_call' = AfterFinally("get_object_types", now)
    /\ files' = Write(Open(files, get_output_filename(fields.coords), lineno),
                      <<"Identifier: ">> \o fields.identifiers \o <<"\n">>)
    /\ references' = <<>>
    /\ replaced' = <<>>
    /\ unique_references' = {}
    /\ Begin(StepsOfReport[1], events)
    /\ UNCHANGED <<coordinates_file, lineno, index, fields, exception, queried,
                   now, ncalls, funVars>>

\* lines 40-46 around query_reference: the gate opens and line 77 sends the
\* lookup
RefWrapperPasses ==
    /\ pc = "query_reference_wrapper"
    /\ GateOpen("query_reference")
    /\ wrapper_now' = now
    /\ starts' = [starts EXCEPT !["query_reference"] = Push2(@, now)]
    /\ requests' = Push2(requests, [kind |-> "query_bibcode", at |-> now])
    /\ events' = Append(events, [what |-> "lookup", phase |-> cursor.phase])
    /\ pc' = "query_bibcode"
    /\ UNCHANGED <<coordinates_file, lineno, index, fields, references, cursor, replaced,
                   unique_references, files, exception, queried,
                   now, time_of_last_call, ncalls, funVars>>

\* line 175 returns; lines 179-181
RefReturnsPrimary ==
    /\ pc = "query_bibcode" /\ cursor.phase = "primary"
    /\ ParseReference(Response(Argument)).ok
    /\ time_of_last_call' = AfterFinally("query_reference", wrapper_now)
    /\ files' = WriteAll(files,
          << <<"\nCoordinates (ICRS): ">> \o fields.ra \o <<" ">> \o fields.dec
                 \o <<" ">> \o ParseReference(Response(Argument)).value
                 \o <<" ", "[">> \o fields.reference \o <<"]", "\n">>,
             <<"\nDistance to center (arcsec): ">> \o fields.distance \o <<"\n">>,
             <<"\nType: ">> \o fields.type \o <<"\n">> >>)
    /\ Begin(NextStep("primary"), events)
    /\ UNCHANGED <<coordinates_file, lineno, index, fields, references, replaced,
                   unique_references, exception, queried,
                   now, wrapper_now, starts, ncalls, funVars>>

\* line 192 returns into re.sub
RefReturnsAllTypes ==
    /\ pc = "query_bibcode" /\ cursor.phase = "all_types"
    /\ ParseReference(Response(Argument)).ok
    /\ time_of_last_call' = AfterFinally("query_reference", wrapper_now)
    /\ replaced' = Append(replaced, ParseReference(Response(Argument)).value)
    /\ cursor' = [cursor EXCEPT !.k = @ + 1]
    /\ pc' = "all_types"
    /\ UNCHANGED <<coordinates_file, lineno, index, fields, references,
                   unique_references, files, exception, events, queried,
                   now, wrapper_now, starts, requests, ncalls, funVars>>

\* line 216
RefReturnsReferences ==
    /\ pc = "query_bibcode" /\ cursor.phase = "references"
    /\ ParseReference(Response(Argument)).ok
    /\ time_of_last_call' = AfterFinally("query_reference", wrapper_now)
    /\ unique_references' = unique_references \cup
           {ReferenceLine(ParseReference(Response(Argument)).value, Argument)}
    /\ cursor' = [cursor EXCEPT !.k = @ + 1]
    /\ pc' = "references"
    /\ UNCHANGED <<coordinates_file, lineno, index, fields, references, replaced,
                   files, exception, events, queried,
                   now, wrapper_now, starts, requests, ncalls, funVars>>

\* lines 92-98 raise IndexError; the finally clause runs and the exception
\* goes on
RefRaises ==
    /\ pc = "query_bibcode"
    /\ ~ParseReference(Response(Argument)).ok
    /\ time_of_last_call' = AfterFinally("query_reference", wrapper_now)
    /\ Raise(ParseReference(Response(Argument)).value)
    /\ UNCHANGED <<coordinates_file, lineno, index, fields, references, cursor, replaced,
                   unique_references, files, events, queried,
                   now, wrapper_now, starts, requests, ncalls, funVars>>

\* line 77 fails
RefRemoteFails ==
    /\ pc = "query_bibcode"
    /\ time_of_last_call' = AfterFinally("query_reference", wrapper_now)
    /\ Raise("RemoteQueryError")
    /\ UNCHANGED <<coordinates_file, lineno, index, fields, references, cursor, replaced,
                   unique_references, files, events, queried,
                   now, wrapper_now, starts, requests, ncalls, funVars>>

\* line 183: the page is there, the generator runs to its end; line 194
FetchReturns ==
    /\ pc = "requests_get"
    /\ ExhaustObjectTypes(Sky[fields.main_id].doc).ok
    /\ references' = ExhaustObjectTypes(Sky[fields.main_id].doc).value
    /\ files' = Write(files, <<"\nAll types: ">>)
    /\ Begin(NextStep("materialize"),
             Append(events, [what |-> "extracted", phase |-> None]))
    /\ UNCHANGED <<coordinates_file, lineno, index, fields, replaced,
                   unique_references, exception, queried,
                   now, time_of_last_call, wrapper_now, starts, ncalls, funVars>>

\* line 126 or line 136 raises IndexError
FetchRaises ==
    /\ pc = "requests_get"
    /\ ~ExhaustObjectTypes(Sky[fields.main_id].doc).ok
    /\ Raise(ExhaustObjectTypes(Sky[fields.main_id].doc).value)
    /\ UNCHANGED <<coordinates_file, lineno, index, fields, references, cursor, replaced,
                   unique_references, files, events, queried, clockVars, funVars>>

\* line 123 fails
FetchFails ==
    /\ pc = "requests_get"
    /\ Raise("RemoteQueryError")
    /\ UNCHANGED <<coordinates_file, lineno, index, fields, references, cursor, replaced,
                   unique_references, files, events, queried, clockVars, funVars>>

\* line 196: re.sub calls bibcode_replacement for the next match
AllTypesLookup ==
    /\ pc = "all_types"
    /\ cursor.i <= Len(references)
    /\ cursor.k <= Len(Bibcodes(references[cursor.i][2]))
    /\ pc' = "query_reference_wrapper"
    /\ UNCHANGED <<coordinates_file, lineno, index, fields, references, cursor, replaced,
                   unique_references, files, exception, events, queried,
                   clockVars, funVars>>

\* lines 196-201: re.sub is through with the entry, which is written
AllTypesWrite ==
    /\ pc = "all_types"
    /\ cursor.i <= Len(references)
    /\ cursor.k > Len(Bibcodes(references[cursor.i][2]))
    /\ files' = WriteAll(files,
          << references[cursor.i][1] \o <<" ", "(">>
                 \o Substitute(references[cursor.i][2], replaced) \o <<")">>,
             IF cursor.i < Len(references) THEN <<",", " ">> ELSE <<"\n">> >>)
    /\ cursor' = [cursor EXCEPT !.i = @ + 1, !.k = 1]
    /\ replaced' = <<>>
    /\ UNCHANGED <<coordinates_file, lineno, index, pc, fields, references,
                   unique_references, exception, events, queried,
                   clockVars, funVars>>

\* lines 203-210
AllTypesEnd ==
    /\ pc = "all_types"
    /\ cursor.i > Len(references)
    /\ files' = WriteAll(files,
          << <<"\nSpectral type: ">> \o fields.spectral_type \o <<"\n">>,
             <<"\nReferences:\n">>,
             fields.reference \o <<" ">> \o Url(fields.reference) \o <<"\n">> >>)
    /\ Begin(NextStep("all_types"), events)
    /\ UNCHANGED <<coordinates_file, lineno, index, fields, references, replaced,
                   unique_references, exception, queried,
                   now, time_of_last_call, wrapper_now, starts, ncalls, funVars>>

\* lines 213-216: the next match of re.findall
ReferencesLookup ==
    /\ pc = "references"
    /\ cursor.k <= Len(AllBibcodes(references))
    /\ pc' = "query_reference_wrapper"
    /\ UNCHANGED <<coordinates_file, lineno, index, fields, references, cursor, replaced,
                   unique_references, files, exception, events, queried,
                   clockVars, funVars>>

\* lines 217-218, the file is closed, lines 245-246
ReferencesWrite ==
    /\ pc = "references"
    /\ cursor.k > Len(AllBibcodes(references))
    /\ files' = Close(WriteAll(files,
          [n \in 1..Cardinality(unique_references) |->
              Sorted(unique_references)[n] \o <<"\n">>]))
    /\ index' = index + 1
    /\ pc' = "main"
    /\ cursor' = NoCursor
    /\ UNCHANGED <<coordinates_file, lineno, fields, references, replaced,
                   unique_references, exception, events, queried,
                   clockVars, funVars>>

NoFunction == fin = None /\ fout = None /\ fpc = "idle"

ClockInit ==
    /\ now = 0
    /\ time_of_last_call = [g \in Throttles |-> DatetimeMin]
    /\ wrapper_now = 0
    /\ starts = [g \in Throttles |-> <<>>]
    /\ requests = <<>>
    /\ ncalls = 0

Init ==
    /\ coordinates_file \in Files
    /\ lineno = 0
    /\ index = 1
    /\ pc = "main"
    /\ fields = NoFields
    /\ references = <<>>
    /\ cursor = NoCursor
    /\ replaced = <<>>
    /\ unique_references = {}
    /\ files = <<>>
    /\ exception = NoException
    /\ events = <<>>
    /\ queried = {}
    /\ ClockInit
    /\ NoFunction

Next ==
    \/ SkipLine
    \/ ReadLine
    \/ EndOfFile
    \/ RegionReturns
    \/ RegionFails
    \/ TypesWrapperPasses
    \/ RefWrapperPasses
    \/ RefReturnsPrimary
    \/ RefReturnsAllTypes
    \/ RefReturnsReferences
    \/ RefRaises
    \/ RefRemoteFails
    \/ FetchReturns
    \/ FetchRaises
    \/ FetchFails
    \/ AllTypesLookup
    \/ AllTypesWrite
    \/ AllTypesEnd
    \/ ReferencesLookup
    \/ ReferencesWrite
    \/ Tick

Spec == Init /\ [][Next]_vars

-----------------------------------------------------------------------------
(* A caller of the two decorated functions that goes on after an exception  *)
(* (run_tests.py calls them in a row; unittest catches what a test raises). *)

CallQueryReference ==
    /\ pc = "caller" /\ ncalls < MaxCalls
    /\ \E b \in {B99R, B00X} : fields' = [reference |-> b]
    /\ cursor' = [phase |-> "primary", i |-> 0, k |-> 0]
    /\ ncalls' = ncalls + 1
    /\ pc' = "query_reference_wrapper"
    /\ UNCHANGED <<coordinates_file, lineno, index, references, replaced,
                   unique_references, files, exception, events, queried,
                   now, time_of_last_call, wrapper_now, starts, requests, funVars>>

CallGetObjectTypes ==
    /\ pc = "caller" /\ ncalls < MaxCalls
    /\ ncalls' = ncalls + 1
    /\ pc' = "get_object_types_wrapper"
    /\ UNCHANGED <<coordinates_file, lineno, index, fields, references, cursor, replaced,
                   unique_references, files, exception, events, queried,
                   now, time_of_last_call, wrapper_now, starts, requests, funVars>>

\* lines 40-48 around get_object_types: fn() hands back a generator at once
CallerTypesPasses ==
    /\ pc = "get_object_types_wrapper"
    /\ GateOpen("get_object_types")
    /\ wrapper_now' = now
    /\ starts' = [starts EXCEPT !["get_object_types"] = Push2(@, now)]
    /\ time_of_last_call' = AfterFinally("get_object_types", now)
    /\ exception' = NoException
    /\ pc' = "caller"
    /\ UNCHANGED <<coordinates_file, lineno, index, fields, references, cursor, replaced,
                   unique_references, files, events, queried,
                   now, requests, ncalls, funVars>>

\* lines 46-48: query_reference returns
CallerRefReturns ==
    /\ pc = "query_bibcode"
    /\ ParseReference(Response(Argument)).ok
    /\ time_of_last_call' = AfterFinally("query_reference", wrapper_now)
    /\ exception' = NoException
    /\ pc' = "caller"
    /\ UNCHANGED <<coordinates_file, lineno, index, fields, references, cursor, replaced,
                   unique_references, files, events, queried,
                   now, wrapper_now, starts, requests, ncalls, funVars>>

\* lines 46-48: query_reference raises (a bad response, or the remote call)
CallerRefRaises ==
    /\ pc = "query_bibcode"
    /\ \E e \in {"IndexError", "RemoteQueryError"} :
          /\ e = "IndexError" => ~ParseReference(Response(Argument)).ok
          /\ exception' = [kind |-> e, line |-> 0]
    /\ time_of_last_call' = AfterFinally("query_reference", wrapper_now)
    /\ pc' = "caller"
    /\ UNCHANGED <<coordinates_file, lineno, index, fields, references, cursor, replaced,
                   unique_references, files, events, queried,
                   now, wrapper_now, starts, requests, ncalls, funVars>>

ThrottleInit ==
    /\ coordinates_file = <<>>
    /\ lineno = 0
    /\ index = 1
    /\ pc = "caller"
    /\ fields = NoFields
    /\ references = <<>>
    /\ cursor = NoCursor
    /\ replaced = <<>>
    /\ unique_references = {}
    /\ files = <<>>
    /\ exception = NoException
    /\ events = <<>>
    /\ queried = {}
    /\ ClockInit
    /\ NoFunction

ThrottleNext ==
    \/ CallQueryReference
    \/ CallGetObjectTypes
    \/ CallerTypesPasses
    \/ RefWrapperPasses
    \/ CallerRefReturns
    \/ CallerRefRaises
    \/ Tick

\* The busy loop of lines 40-44 keeps reading a clock that keeps advancing.
ThrottleSpec ==
    /\ ThrottleInit /\ [][ThrottleNext]_vars
    /\ WF_vars(Tick) /\ WF_vars(RefWrapperPasses) /\ WF_vars(CallerTypesPasses)

-----------------------------------------------------------------------------
(* The functions on their own, applied to arguments drawn from bounded sets. *)

NoBatch ==
    /\ coordinates_file = <<>>
    /\ lineno = 0
    /\ index = 1
    /\ pc = "idle"
    /\ fields = NoFields
    /\ references = <<>>
    /\ cursor = NoCursor
    /\ replaced = <<>>
    /\ unique_references = {}
    /\ files = <<>>
    /\ exception = NoException
    /\ events = <<>>
    /\ queried = {}
    /\ ClockInit

SeqsUpTo(S, n) == UNION {[1..m -> S] : m \in 0..n}

\* ---- query_reference ----
MaxName == 3
AuthorAlphabet == {"M", "o", "-", " "}
YearLines ==
    { <<"(", "1", "9", "9", "9", ")">>,
      <<"J", " ", "(", "2", "0", "1", "1", ")", ".">>,
      <<"(", "8", "9", ")", "(", "2", "0", "0", "5", ")", "(", "1", "9", "8", "9", ")">>,
      <<"(", "1", "9", "9", "9", "9", ")">>,
      <<"1", "9", "9", "9">>,
      <<>> }
ResponseHead == << <<"R", "e", "f", "s">>, <<"-", "-">>, <<"=">> >>
ReferenceInputs ==
    {ResponseHead \o <<y, a>> : y \in YearLines, a \in SeqsUpTo(AuthorAlphabet, MaxName)}
    \cup {ResponseHead \o <<y>> : y \in YearLines}

ReferenceInit == NoBatch /\ fin \in ReferenceInputs /\ fout = None /\ fpc = "ready"
CallParseReference ==
    /\ fpc = "ready"
    /\ fout' = ParseReference(fin)
    /\ fpc' = "done"
    /\ UNCHANGED <<fin, batchVars, clockVars>>
ReferenceSpec == ReferenceInit /\ [][CallParseReference]_vars

\* ---- get_object_types ----
MaxMarkers == 2
Titles ==
    { <<>>,
      <<"[", "A", "]">>,
      <<"2", "M", ",", "[", "G", "]", ",", "H">>,
      <<"R", "e", "f">>,
      <<"R", "e", "f", ",", "[", "M", "]">>,
      <<"H", ",", "R", "e", "f", ",", "R", "e", "f", "s">> }
MarkerChoices ==
    {Marker(tag, title, anchors) :
        tag \in {<<"R", "a", "d">>, <<" ", "I", "R", " ">>},
        title \in Titles,
        anchors \in {<<>>, <<Href(B05G), Href(B99R)>>}}
DocInputs ==
    {[ntables |-> n, markers |-> m] : n \in {3, 4}, m \in SeqsUpTo(MarkerChoices, MaxMarkers)}

TypesInit == NoBatch /\ fin \in DocInputs /\ fout = None /\ fpc = "ready"
CallExhaustObjectTypes ==
    /\ fpc = "ready"
    /\ fout' = ExhaustObjectTypes(fin)
    /\ fpc' = "done"
    /\ UNCHANGED <<fin, batchVars, clockVars>>
TypesSpec == TypesInit /\ [][CallExhaustObjectTypes]_vars

\* ---- get_output_filename ----
SecondChoices ==
    {0, 24550 * UnitsPerMilli, 27633 * UnitsPerMilli + 3, 30 * UnitsPerSecond + 1,
     59999 * UnitsPerMilli + 2, 59999 * UnitsPerMilli + 3}
RaChoices ==
    {h * UnitsPerHour + m * UnitsPerMinute + sec :
        h \in {0, 5, 23}, m \in {0, 35, 59}, sec \in SecondChoices}
DecChoices ==
    {sgn * (d * UnitsPerHour + m * UnitsPerMinute + sec) :
        sgn \in {-1, 1}, d \in {0, 5, 57, 89}, m \in {0, 9}, sec \in SecondChoices}
    \cup {-90 * UnitsPerHour, 90 * UnitsPerHour}
CoordInputs ==
    {[ra |-> r, dec |-> d, upra |-> ur, updec |-> ud] :
        r \in RaChoices, d \in DecChoices, ur \in BOOLEAN, ud \in BOOLEAN}

FilenameInit == NoBatch /\ fin \in CoordInputs /\ fout = None /\ fpc = "ready"
CallGetOutputFilename ==
    /\ fpc = "ready"
    /\ fout' = get_output_filename(fin)
    /\ fpc' = "done"
    /\ UNCHANGED <<fin, batchVars, clockVars>>
FilenameSpec == FilenameInit /\ [][CallGetOutputFilename]_vars

-----------------------------------------------------------------------------
(* The properties.                                                          *)

\* The report of the line just processed is complete.
ReportDone ==
    /\ pc = "main"
    /\ files # <<>>
    /\ files[Len(files)].complete
    /\ files[Len(files)].line = lineno

ReportText == files[Len(files)].text
ChunkLabelled(label) ==
    CHOOSE n \in DOMAIN ReportText : ReportText[n] # <<>> /\ ReportText[n][1] = label

\* the position of the first "}" of s after i, 0 if there is none
ClosingBrace(s, i) ==
    IF \E j \in (i + 1)..Len(s) : s[j] = "}"
    THEN CHOOSE j \in (i + 1)..Len(s) : s[j] = "}" /\ \A m \in (i + 1)..(j - 1) : s[m] # "}"
    ELSE 0

\* what stands between curly braces in s, whatever its characters
RECURSIVE CurlyCodesFrom(_, _)
CurlyCodesFrom(s, i) ==
    IF i > Len(s) THEN <<>>
    ELSE IF s[i] = "{" /\ ClosingBrace(s, i) > 0
         THEN <<SubSeq(s, i + 1, ClosingBrace(s, i) - 1)>>
              \o CurlyCodesFrom(s, ClosingBrace(s, i) + 1)
         ELSE CurlyCodesFrom(s, i + 1)
CurlyCodes(s) == CurlyCodesFrom(s, 1)

RECURSIVE AllCurlyCodes(_)
AllCurlyCodes(refs) ==
    IF refs = <<>> THEN <<>> ELSE CurlyCodes(Head(refs)[2]) \o AllCurlyCodes(Tail(refs))

\* the citation the service's answer for b stands for
Citation(b) == ParseReference(Response(b)).value

\* s with every {code} replaced by the citation of code
RECURSIVE ResolvedFrom(_, _)
ResolvedFrom(s, i) ==
    IF i > Len(s) THEN <<>>
    ELSE IF s[i] = "{" /\ ClosingBrace(s, i) > 0
         THEN Citation(SubSeq(s, i + 1, ClosingBrace(s, i) - 1))
              \o ResolvedFrom(s, ClosingBrace(s, i) + 1)
         ELSE <<s[i]>> \o ResolvedFrom(s, i + 1)
Resolved(s) == ResolvedFrom(s, 1)

Lookups == {n \in DOMAIN events : events[n].what = "lookup"}

\* C1: no two requests to the remote service, bibliographic lookups or
\* identifier page fetches in any combination, are issued less than the
\* throttle period apart.
C1_RequestsSpaced ==
    (/\ Len(requests) = 2
     /\ requests[1].kind \in {"query_bibcode", "sim-id"}
     /\ requests[2].kind \in {"query_bibcode", "sim-id"})
    => requests[2].at - requests[1].at >= ThrottlePeriod

\* C2 as claimed: no lookup is sent for an object before the extraction of its
\* taxonomy is complete.
C2_ExtractionBeforeAnyLookup ==
    \A n \in Lookups : \E m \in 1..(n - 1) : events[m].what = "extracted"

\* C2 as amended: the lookups of the codes of the annotations are sent only
\* after the extraction is complete, while the lookup of the primary bibcode
\* is sent before the page is even fetched.
C2_ExtractionBeforeAnnotationLookups ==
    /\ \A n \in Lookups :
          events[n].phase # "primary"
          => \E m \in 1..(n - 1) : events[m].what = "extracted"
    /\ \A n \in DOMAIN events :
          events[n].what = "fetch"
          => \E m \in 1..(n - 1) : events[m].what = "lookup" /\ events[m].phase = "primary"

C2_Witness ==
    \E n \in Lookups : events[n].phase = "all_types" /\ pc = "query_bibcode"

\* C3: the References section starts with the line of the primary bibcode and
\* goes on with one line "<citation> <url>" per distinct bibliographic code
\* that stands in curly braces in an annotation, ascending, none repeated.
C3_ReferencesSection ==
    ReportDone =>
        LET lines == SubSeq(ReportText, ChunkLabelled("\nReferences:\n") + 1, Len(ReportText))
            first == lines[1]
            tail  == Url(fields.reference) \o <<"\n">>
            codes == Range(AllCurlyCodes(references))
            want  == Sorted({ReferenceLine(Citation(c), c) : c \in codes})
        IN  /\ SubSeq(first, Len(first) - Len(tail) + 1, Len(first)) = tail
            /\ Tail(lines) = [n \in 1..Len(want) |-> want[n] \o <<"\n">>]

\* C4: the All types section holds one item "TAG (annotation)" per taxonomy
\* entry, in order, every {code} of the annotation replaced by its citation,
\* the items separated by ", " and the last one followed by a newline.
C4_AllTypesSection ==
    ReportDone =>
        LET from == ChunkLabelled("\nAll types: ") + 1
            to   == ChunkLabelled("\nSpectral type: ") - 1
            n    == Len(references)
        IN  SubSeq(ReportText, from, to) =
                [j \in 1..(2 * n) |->
                    IF j % 2 = 1
                    THEN references[(j + 1) \div 2][1] \o <<" ", "(">>
                         \o Resolved(references[(j + 1) \div 2][2]) \o <<")">>
                    ELSE IF j < 2 * n THEN <<",", " ">> ELSE <<"\n">>]

\* C7: once a failure has happened the run is over: the exception is not
\* caught, no line after the failed one is queried or gets a report, and the
\* report of the failed line is not completed.
C7_FailureEndsRun ==
    exception.kind # None =>
        /\ pc = "crashed"
        /\ \A j \in queried : j <= exception.line
        /\ \A n \in DOMAIN files :
              /\ files[n].line <= exception.line
              /\ files[n].line = exception.line => ~files[n].complete

C7_Witness ==
    /\ exception.kind # None
    /\ exception.kind = "IndexError"
    /\ exception.line < Len(coordinates_file)
    /\ coordinates_file[exception.line + 1] \in Objects
    /\ files # <<>> /\ files[Len(files)].line = exception.line

\* C10: a report takes 1 + 2 * N lookups, N the number of curly-brace
\* occurrences in the annotations.
C10_LookupsPerReport ==
    ReportDone => Cardinality(Lookups) = 1 + 2 * Len(AllCurlyCodes(references))

\* C9: the wrapped calls of one throttled function start at least the
\* throttle period apart, whether the call before returned or raised;
\* time_of_last_call never decreases; a call waiting at the gate gets through.
Spaced ==
    \A g \in Throttles :
        Len(starts[g]) = 2 => starts[g][2] - starts[g][1] >= ThrottlePeriod
C9_Throttle ==
    /\ []Spaced
    /\ [][\A g \in Throttles : time_of_last_call'[g] >= time_of_last_call[g]]_vars
    /\ \A g \in Throttles : (pc = WrapperOf(g)) ~> (pc # WrapperOf(g))

C9_Witness ==
    /\ pc = "query_bibcode"
    /\ exception.kind = "IndexError"
    /\ Len(starts["query_reference"]) = 2
    /\ starts["query_reference"][2] - starts["query_reference"][1] = ThrottlePeriod

\* ---- query_reference ----
FirstNonBlank(line) ==
    CHOOSE i \in DOMAIN line : line[i] # " " /\ \A j \in 1..(i - 1) : line[j] = " "
\* the first token of line: from its first non-blank to the next blank
Surname(line) ==
    LET a == FirstNonBlank(line)
        b == CHOOSE j \in a..Len(line) :
                /\ \A m \in a..j : line[m] # " "
                /\ j = Len(line) \/ line[j + 1] = " "
    IN  SubSeq(line, a, b)
HasSurname(data) == Len(data) >= 5 /\ \E i \in DOMAIN data[5] : data[5][i] # " "
HasYear(data) == Len(data) >= 4 /\ \E i \in DOMAIN data[4] : YearMatchAt(data[4], i)
FirstYear(line) ==
    LET i == CHOOSE j \in DOMAIN line :
                YearMatchAt(line, j) /\ \A m \in 1..(j - 1) : ~YearMatchAt(line, m)
    IN  SubSeq(line, i + 1, i + 4)

\* C5: for a response with a surname on line 4 and a parenthesized year on
\* line 3, the result is the surname, every hyphen-separated segment with its
\* first letter in upper case and the rest in lower case, followed by the
\* last two digits of the year.
C5_Citation ==
    (fpc = "done" /\ HasSurname(fin) /\ HasYear(fin)) =>
        LET name == Surname(fin[5])
            year == FirstYear(fin[4])
            n    == Len(name)
        IN  /\ fout.ok
            /\ Len(fout.value) = n + 2
            /\ \A i \in 1..n :
                  fout.value[i] =
                      IF name[i] = "-" THEN "-"
                      ELSE IF i = 1 \/ name[i - 1] = "-" THEN ToUpper(name[i])
                      ELSE ToLower(name[i])
            /\ fout.value[n + 1] = year[3]
            /\ fout.value[n + 2] = year[4]

C5_Witness ==
    /\ fpc = "done"
    /\ Len(fin) = 5
    /\ fin[4] = <<"J", " ", "(", "2", "0", "1", "1", ")", ".">>
    /\ fin[5] = <<"o", "M", "-">>
    /\ fout.ok
    /\ fout.value = <<"O", "m", "-", "1", "1">>

\* ---- get_object_types ----
\* what follows the last "?bibcode=" of the first anchor of marker r
CodeOf(r) ==
    IF r.anchors = <<>> THEN <<>>
    ELSE LET h == r.anchors[1]
             at == {i \in DOMAIN h : h[i] = BibcodeParam}
         IN  IF at = {} THEN h
             ELSE SubSeq(h, (CHOOSE i \in at : \A j \in at : j <= i) + 1, Len(h))

\* title, each "," followed by a blank and each Ref replaced by {code}
RECURSIVE ExpandedFrom(_, _, _)
ExpandedFrom(title, i, code) ==
    IF i > Len(title) THEN <<>>
    ELSE IF i + 2 <= Len(title) /\ SubSeq(title, i, i + 2) = Ref
         THEN <<"{">> \o code \o <<"}">> \o ExpandedFrom(title, i + 3, code)
         ELSE IF title[i] = ","
              THEN <<",", " ">> \o ExpandedFrom(title, i + 1, code)
              ELSE <<title[i]>> \o ExpandedFrom(title, i + 1, code)

HasRef(r) == \E i \in 1..(Len(r.title) - 2) : SubSeq(r.title, i, i + 2) = Ref

\* C6 as claimed: a tooltip without Ref is passed through unchanged.
C6_TooltipUnchanged ==
    (fpc = "done" /\ fout.ok) =>
        \A i \in DOMAIN fin.markers :
            ~HasRef(fin.markers[i]) => fout.value[i][2] = fin.markers[i].title

\* C6 as amended: one pair per marker, in order; the annotation is the
\* tooltip with every "," followed by a blank and every Ref replaced by the
\* code of the marker's first anchor in curly braces; the call fails exactly
\* when the table is missing or a marker with Ref has no anchor.
C6_Annotations ==
    fpc = "done" =>
        /\ fout.ok <=> /\ fin.ntables >= 4
                       /\ \A i \in DOMAIN fin.markers :
                             HasRef(fin.markers[i]) => fin.markers[i].anchors # <<>>
        /\ fout.ok =>
              /\ Len(fout.value) = Len(fin.markers)
              /\ \A i \in DOMAIN fin.markers :
                    /\ fout.value[i][1] = SelectSeq(fin.markers[i].tag, LAMBDA c : c # " ")
                    /\ fout.value[i][2] =
                          ExpandedFrom(fin.markers[i].title, 1, CodeOf(fin.markers[i]))

C6_Witness ==
    /\ fpc = "done"
    /\ fout.ok
    /\ Len(fin.markers) = 2
    /\ fin.markers[2].title = <<"H", ",", "R", "e", "f", ",", "R", "e", "f", "s">>
    /\ fout.value[2][2] = <<"H", ",", " ", "{", "0", "5", "A", "&", "A", "G", "}", ",", " ",
                            "{", "0", "5", "A", "&", "A", "G", "}", "s">>

\* ---- get_output_filename ----
DigitValue(c) == IndexOf(Digits, c) - 1
Number(s, from, to) ==
    LET RECURSIVE Value(_)
        Value(i) == IF i < from THEN 0 ELSE 10 * Value(i - 1) + DigitValue(s[i])
    IN  Value(to)

\* C8: the name is J, hh, mm, ss.sss, the sign, dd, mm, ss.sss and .txt: two
\* digits for hours, degrees and minutes, six characters with three decimals
\* for the seconds, absolute values for the declination, and the sign is "+"
\* exactly when the declination is >= 0.
C8_Filename ==
    fpc = "done" =>
        LET ra  == fin.ra
            dec == Abs(fin.dec)
        IN  /\ Len(fout) = 23
            /\ fout[1] = "J" /\ fout[23] = ".txt"
            /\ fout[8] = "." /\ fout[19] = "."
            /\ \A i \in (2..22) \ {8, 12, 19} : IsDigit(fout[i])
            /\ fout[12] \in {"+", "-"}
            /\ fout[12] = "+" <=> fin.dec >= 0
            /\ Number(fout, 2, 3) = ra \div UnitsPerHour
            /\ Number(fout, 4, 5) = (ra \div UnitsPerMinute) % 60
            /\ 2 * Abs((1000 * Number(fout, 6, 7) + Number(fout, 9, 11)) * UnitsPerMilli
                       - (ra % UnitsPerMinute)) <= UnitsPerMilli
            /\ Number(fout, 13, 14) = dec \div UnitsPerHour
            /\ Number(fout, 15, 16) = (dec \div UnitsPerMinute) % 60
            /\ 2 * Abs((1000 * Number(fout, 17, 18) + Number(fout, 20, 22)) * UnitsPerMilli
                       - (dec % UnitsPerMinute)) <= UnitsPerMilli

C8_Witness ==
    /\ fpc = "done"
    /\ fin.dec < 0 /\ fin.dec > -UnitsPerMinute
    /\ fout[12] = "-"
    /\ Number(fout, 13, 14) = 0

====
